---- MODULE Spec2Model ----
(***************************************************************************)
(* Model of the game-theory extractor:                                     *)
(*   - validate.py : the Prolog fact validator (pure functions over text)  *)
(*   - extract.py  : the page-by-page extraction loop with its persisted   *)
(*                   progress state, knowledge base and raw artifacts      *)
(* Text is a sequence of one-character strings.                            *)
(***************************************************************************)
EXTENDS Integers, Sequences, FiniteSets, TLC

VARIABLES
    \* ---- extraction loop (extract.py) ----
    pc,          \* position of process_pdf: "idle" (not running), "loop" (top
                 \* of the for loop), "call" (about to call the service),
                 \* "generated" (payload in hand), "save" (outcome written,
                 \* progress not yet), "sleep" (retry loop left)
    state_file,  \* state.json: <<>> when absent, <<current_page>> otherwise
    kb_exists,   \* whether output/knowledge.pl exists
    kb,          \* content of output/knowledge.pl (text)
    raw,         \* output/raw: set of <<file name, content>> pairs
    pages,       \* the PDF: sequence of extracted text lengths, one per page
    start_page,  \* process_pdf local
    end_page,    \* process_pdf local
    page_num,    \* for-loop variable (0-based index)
    attempt,     \* retry-loop variable
    prolog_facts,\* payload returned by call_claude for the page in hand
    runs,        \* number of process_pdf invocations so far
    log,         \* events of the page in hand, in order (history)
    hist,        \* facts about this run and the previous one (history)
    \* ---- validator harness (validate.py) ----
    vin,         \* input text handed to the validator functions
    vop,         \* which function was applied ("none" before)
    vout         \* its result

vars == <<pc, state_file, kb_exists, kb, raw, pages, start_page, end_page,
          page_num, attempt, prolog_facts, runs, log, hist, vin, vop, vout>>

loopVars == <<pc, state_file, kb_exists, kb, raw, pages, start_page, end_page,
              page_num, attempt, prolog_facts, runs, log, hist>>

valVars == <<vin, vop, vout>>

-----------------------------------------------------------------------------
(* Text helpers *)

\* A string literal as a sequence of one-character strings.
Chars(s) == [i \in 1..Len(s) |-> SubSeq(s, i, i)]

RECURSIVE Concat(_)
Concat(ss) == IF ss = <<>> THEN <<>> ELSE Head(ss) \o Concat(Tail(ss))

Lower == {"a","b","c","d","e","f","g","h","i","j","k","l","m",
          "n","o","p","q","r","s","t","u","v","w","x","y","z"}
Upper == {"A","B","C","D","E","F","G","H","I","J","K","L","M",
          "N","O","P","Q","R","S","T","U","V","W","X","Y","Z"}
Digit == {"0","1","2","3","4","5","6","7","8","9"}

\* Characters str.strip() removes and the regex class \s matches
\* (the ASCII ones expressible here: space, tab, newline, CR, form feed).
Whitespace == {" ", "\t", "\n", "\r", "\f"}

\* str.lstrip() / str.rstrip(): from the first, up to the last, character that
\* is not whitespace.
LStrip(s) ==
    LET keep == {k \in DOMAIN s : s[k] \notin Whitespace} IN
    IF keep = {} THEN <<>>
    ELSE SubSeq(s, CHOOSE k \in keep : \A j \in keep : k <= j, Len(s))

RStrip(s) ==
    LET keep == {k \in DOMAIN s : s[k] \notin Whitespace} IN
    IF keep = {} THEN <<>>
    ELSE SubSeq(s, 1, CHOOSE k \in keep : \A j \in keep : k >= j)

Strip(s) == RStrip(LStrip(s))

\* str.split('\n'): the pieces between the newlines, always at least one
\* (possibly empty) piece.
SplitLines(s) ==
    LET nl == {k \in DOMAIN s : s[k] = "\n"}
        n == Cardinality(nl)
        cut(j) == IF j = 0 THEN 0
                  ELSE IF j = n + 1 THEN Len(s) + 1
                  ELSE CHOOSE k \in nl : Cardinality({m \in nl : m <= k}) = j
    IN  [j \in 1..(n + 1) |-> SubSeq(s, cut(j - 1) + 1, cut(j) - 1)]

StartsWith(s, p) == Len(s) >= Len(p) /\ SubSeq(s, 1, Len(p)) = p

EndsWith(s, p) == Len(s) >= Len(p) /\ SubSeq(s, Len(s) - Len(p) + 1, Len(s)) = p

IsPrefix(p, s) == StartsWith(s, p)

\* Decimal digits of a natural number, as str() prints them.
RECURSIVE NatToStr(_)
NatToStr(n) ==
    LET d == <<"0","1","2","3","4","5","6","7","8","9">>[(n % 10) + 1]
    IN  IF n < 10 THEN <<d>> ELSE Append(NatToStr(n \div 10), d)

\* str(n) / f"{n}"
IntToStr(n) == IF n < 0 THEN <<"-">> \o NatToStr(-n) ELSE NatToStr(n)

-----------------------------------------------------------------------------
(* validate.py *)

\* A variant of VALID_PREDICATES that also holds a capitalised name.
VALID_PREDICATES_capitalised ==
    {Chars("concept"), Chars("relates"), Chars("example"), Chars("formula"),
     Chars("Concept")}

VALID_PREDICATES ==
    {Chars("concept"), Chars("relates"), Chars("example"), Chars("formula")}

\* A variant of ParenStep without the in_string flag: every parenthesis counts.
ParenStep_every_paren(st, char) ==
    IF st.returned THEN st
    ELSE IF char = "(" THEN [st EXCEPT !.count = st.count + 1]
    ELSE IF char = ")"
         THEN IF st.count - 1 < 0
              THEN [st EXCEPT !.count = st.count - 1, !.returned = TRUE]
              ELSE [st EXCEPT !.count = st.count - 1]
    ELSE st

\* check_balanced_parens: one iteration of the for loop on the scanner's
\* locals; returned is set by the "return False" of line 45.
ParenStep(st, char) ==
    IF st.returned THEN st
    ELSE IF st.escape_next THEN [st EXCEPT !.escape_next = FALSE]
    ELSE IF char = "\\" THEN [st EXCEPT !.escape_next = TRUE]
    ELSE IF char = "\"" THEN [st EXCEPT !.in_string = ~st.in_string]
    ELSE IF st.in_string THEN st
    ELSE IF char = "(" THEN [st EXCEPT !.count = st.count + 1]
    ELSE IF char = ")"
         THEN IF st.count - 1 < 0
              THEN [st EXCEPT !.count = st.count - 1, !.returned = TRUE]
              ELSE [st EXCEPT !.count = st.count - 1]
    ELSE st

\* The for loop over text[lo..hi], left to right (the range is halved so that
\* the evaluation stays shallow).
RECURSIVE ParenScan(_, _, _, _)
ParenScan(text, lo, hi, st) ==
    IF lo > hi THEN st
    ELSE IF lo = hi THEN ParenStep(st, text[lo])
    ELSE LET mid == (lo + hi) \div 2
             half == ParenScan(text, lo, mid, st)
         IN  IF half.returned THEN half ELSE ParenScan(text, mid + 1, hi, half)

check_balanced_parens(text) ==
    LET st == ParenScan(text, 1, Len(text),
                        [count |-> 0, in_string |-> FALSE, escape_next |-> FALSE,
                         returned |-> FALSE])
    IN  ~st.returned /\ st.count = 0

\* FACT_PATTERN = ^([a-z_][a-z0-9_]*)\s*\((.*)\)\s*\.\s*$  with re.IGNORECASE.
IdentStart == Lower \cup Upper \cup {"_"}
IdentChar == IdentStart \cup Digit

\* Length of the longest identifier at the start of line (0 when none); the
\* group cannot stop earlier, since what follows it is \s or "(".
RECURSIVE IdentRun(_, _)
IdentRun(line, i) ==
    IF i <= Len(line) /\ line[i] \in (IF i = 1 THEN IdentStart ELSE IdentChar)
    THEN IdentRun(line, i + 1) ELSE i - 1

\* group(1) of the match, or <<>> when the pattern does not match.
\* o is the position of the opening parenthesis (the first character after
\* the identifier that is not whitespace), d of the period (the last
\* character that is not whitespace), c of the closing parenthesis (the last
\* character before d that is not whitespace); "." (any character) does not
\* match a newline.
FactMatch(line) ==
    LET n == IdentRun(line, 1)
        o == Len(line) - Len(LStrip(SubSeq(line, n + 1, Len(line)))) + 1
        d == Len(RStrip(line))
        c == Len(RStrip(SubSeq(line, 1, d - 1)))
    IN  IF /\ n >= 1
           /\ o < c /\ c < d
           /\ line[o] = "(" /\ line[c] = ")" /\ line[d] = "."
           /\ \A k \in (o + 1)..(c - 1) : line[k] /= "\n"
        THEN SubSeq(line, 1, n) ELSE <<>>

\* A variant of ParseIter without the doubled-quote lookahead: the first quote
\* ends the string.
ParseIter_first_quote(s, st) ==
    IF st.state /= "running" THEN st
    ELSE IF ~(st.i < Len(s)) THEN [st EXCEPT !.state = "exhausted"]
    ELSE IF s[st.i + 1] = "\"" THEN [st EXCEPT !.state = "returned", !.i = st.i + 1]
    ELSE IF s[st.i + 1] = "\\" /\ st.i + 1 < Len(s)
         THEN [st EXCEPT !.result = Append(st.result, s[st.i + 2]), !.i = st.i + 2]
    ELSE [st EXCEPT !.result = Append(st.result, s[st.i + 1]), !.i = st.i + 1]

\* parse_prolog_string: one iteration of the while loop (lines 57-72) on the
\* locals i (0-based, as in the code) and result; state tells whether the loop
\* is running, has returned (line 65) or was left with i >= len(s).
ParseIter(s, st) ==
    IF st.state /= "running" THEN st
    ELSE IF ~(st.i < Len(s)) THEN [st EXCEPT !.state = "exhausted"]
    ELSE IF s[st.i + 1] = "\""
         THEN IF st.i + 1 < Len(s) /\ s[st.i + 2] = "\""
              THEN [st EXCEPT !.result = Append(st.result, "\""), !.i = st.i + 2]
              ELSE [st EXCEPT !.state = "returned", !.i = st.i + 1]
    ELSE IF s[st.i + 1] = "\\" /\ st.i + 1 < Len(s)
         THEN [st EXCEPT !.result = Append(st.result, s[st.i + 2]), !.i = st.i + 2]
    ELSE [st EXCEPT !.result = Append(st.result, s[st.i + 1]), !.i = st.i + 1]

\* k iterations of the while loop (halved so that the evaluation stays shallow).
RECURSIVE ParseLoop(_, _, _)
ParseLoop(s, st, k) ==
    IF k <= 1 THEN ParseIter(s, st)
    ELSE LET half == ParseLoop(s, st, k \div 2)
         IN  IF half.state /= "running" THEN half
             ELSE ParseLoop(s, half, k - (k \div 2))

\* parse_prolog_string: [ok, content, pos] when it returns, [ok, error] when it
\* raises ValueError.
parse_prolog_string(s) ==
    IF ~StartsWith(s, <<"\"">>)
    THEN [ok |-> FALSE, error |-> "String must start with quote"]
    ELSE LET st == ParseLoop(s, [state |-> "running", i |-> 1, result |-> <<>>],
                             Len(s) + 1)
         IN  IF st.state = "returned"
             THEN [ok |-> TRUE, content |-> st.result, pos |-> st.i]
             ELSE [ok |-> FALSE, error |-> "Unterminated string"]

\* A variant of validate_fact that only checks the parentheses.
validate_fact_parens_only(line0) ==
    LET line == Strip(line0)
    IN  IF line = <<>> \/ StartsWith(line, <<"%">>) \/ check_balanced_parens(line)
        THEN [ok |-> TRUE, error |-> <<"", <<>>>>]
        ELSE [ok |-> FALSE, error |-> <<"Unbalanced parentheses", <<>>>>]

\* validate_fact: [ok, error], the error as <<message, inserted text>>.
validate_fact(line0) ==
    LET line == Strip(line0)
        predicate == FactMatch(line)
    IN  IF line = <<>> \/ StartsWith(line, <<"%">>)
        THEN [ok |-> TRUE, error |-> <<"", <<>>>>]
        ELSE IF ~check_balanced_parens(line)
        THEN [ok |-> FALSE, error |-> <<"Unbalanced parentheses", <<>>>>]
        ELSE IF predicate = <<>>
        THEN [ok |-> FALSE,
              error |-> <<"Invalid fact syntax: ",
                          SubSeq(line, 1, IF Len(line) < 50 THEN Len(line) ELSE 50)>>]
        ELSE IF predicate \notin VALID_PREDICATES
        THEN [ok |-> FALSE, error |-> <<"Unknown predicate: ", predicate>>]
        ELSE IF ~EndsWith(RStrip(line), <<".">>)
        THEN [ok |-> FALSE, error |-> <<"Fact must end with period", <<>>>>]
        ELSE [ok |-> TRUE, error |-> <<"", <<>>>>]

\* A variant of validate_prolog_syntax that takes the has_facts flag into
\* account and refuses a payload without any fact line.
validate_prolog_syntax_has_facts(prolog_text) ==
    LET lines == SplitLines(Strip(prolog_text)) IN
    /\ \A k \in DOMAIN lines : validate_fact(lines[k]).ok
    /\ \E k \in DOMAIN lines :
           Strip(lines[k]) /= <<>> /\ ~StartsWith(Strip(lines[k]), <<"%">>)

\* validate_prolog_syntax: the for loop over the lines, returning at the
\* first line validate_fact rejects.
RECURSIVE ValidateLines(_)
ValidateLines(lines) ==
    IF lines = <<>> THEN TRUE
    ELSE LET line == Strip(Head(lines)) IN
         IF line = <<>> \/ StartsWith(line, <<"%">>) THEN ValidateLines(Tail(lines))
         ELSE IF ~validate_fact(line).ok THEN FALSE
         ELSE ValidateLines(Tail(lines))

validate_prolog_syntax(prolog_text) == ValidateLines(SplitLines(Strip(prolog_text)))

\* The lines (without their terminators) a text file yields when iterated.
\* open() reads with universal newlines: a line ends at "\n", at "\r\n" or at
\* a "\r" alone; text after the last terminator is a last line, and there is
\* no line after a final terminator (none for an empty file).
FileLines(text) ==
    LET ends == {k \in DOMAIN text :
                    \/ text[k] = "\n"
                    \/ text[k] = "\r" /\ ~(k < Len(text) /\ text[k + 1] = "\n")}
        n == Cardinality(ends)
        cut(j) == IF j = 0 THEN 0
                  ELSE CHOOSE k \in ends : Cardinality({m \in ends : m <= k}) = j
        stop(j) == LET k == cut(j)
                   IN  IF text[k] = "\n" /\ k > 1 /\ text[k - 1] = "\r"
                       THEN k - 2 ELSE k - 1
        whole == [j \in 1..n |-> SubSeq(text, cut(j - 1) + 1, stop(j))]
    IN  IF cut(n) < Len(text)
        THEN Append(whole, SubSeq(text, cut(n) + 1, Len(text)))
        ELSE whole

\* The message of a validate_fact error, as the f-strings of lines 95 and 102
\* build it.
ErrorText(error) ==
    Chars(error[1]) \o error[2]
        \o (IF error[1] = "Invalid fact syntax: " THEN Chars("...") ELSE <<>>)

\* A variant of validate_file's loop that stops at the first rejected line.
RECURSIVE FileLoop_first_error(_, _, _)
FileLoop_first_error(lines, line_num, errors) ==
    IF line_num > Len(lines) THEN errors
    ELSE LET line == Strip(lines[line_num]) IN
         IF line = <<>> \/ StartsWith(line, <<"%">>) \/ StartsWith(line, <<":", "-">>)
         THEN FileLoop_first_error(lines, line_num + 1, errors)
         ELSE LET r == validate_fact(line) IN
              IF r.ok THEN FileLoop_first_error(lines, line_num + 1, errors)
              ELSE Append(errors, Chars("Line ") \o IntToStr(line_num) \o Chars(": ")
                                      \o ErrorText(r.error))

\* validate_file: the for loop over the file's lines, from line_num on.
RECURSIVE FileLoop(_, _, _)
FileLoop(lines, line_num, errors) ==
    IF line_num > Len(lines) THEN errors
    ELSE LET line == Strip(lines[line_num]) IN
         IF line = <<>> \/ StartsWith(line, <<"%">>) \/ StartsWith(line, <<":", "-">>)
         THEN FileLoop(lines, line_num + 1, errors)
         ELSE LET r == validate_fact(line) IN
              FileLoop(lines, line_num + 1,
                       IF r.ok THEN errors
                       ELSE Append(errors, Chars("Line ") \o IntToStr(line_num)
                                               \o Chars(": ") \o ErrorText(r.error)))

\* validate_file on a file holding text: [ok, errors].
validate_file(text) ==
    LET errors == FileLoop(FileLines(text), 1, <<>>)
    IN  [ok |-> Len(errors) = 0, errors |-> errors]

-----------------------------------------------------------------------------
(* extract.py: files and helpers *)

max_retries == 3

\* "if not text or len(text) < 50"
MIN_TEXT_LEN == 50

\* state.json is <<>> when absent, <<current_page>> otherwise.
load_state(sf) == IF sf /= <<>> THEN sf[1] ELSE 1

\* A variant of save_state that persists the following page number.
save_state_following(n) == <<n + 1>>

save_state(n) == <<n>>

\* f"{n:03d}": zero-padded to width 3, the sign counting towards the width.
RECURSIVE ZeroPad(_, _)
ZeroPad(digits, width) ==
    IF Len(digits) >= width THEN digits ELSE ZeroPad(<<"0">> \o digits, width)

Fmt03d(n) ==
    IF n < 0 THEN <<"-">> \o ZeroPad(NatToStr(-n), 2) ELSE ZeroPad(NatToStr(n), 3)

\* Path(RAW_DIR) / f"page_{page_num:03d}.txt"
RawPath(n) == Chars("output/raw/page_") \o Fmt03d(n) \o Chars(".txt")

\* A variant of save_raw_response that writes to the previous page's artifact.
save_raw_response_previous(files, n, response) ==
    {f \in files : f[1] /= RawPath(n - 1)} \cup {<<RawPath(n - 1), response>>}

\* save_raw_response: open(path, "w") replaces what the file held.
save_raw_response(files, n, response) ==
    {f \in files : f[1] /= RawPath(n)} \cup {<<RawPath(n), response>>}

\* f"\n% === Page {current_page} ===\n{prolog_facts}"
facts_with_marker(n, facts) ==
    Chars("\n% === Page ") \o IntToStr(n) \o Chars(" ===\n") \o facts

\* A variant of append_to_knowledge_base that always writes the final newline.
append_to_knowledge_base_newline(content, facts) == content \o facts \o <<"\n">>

\* append_to_knowledge_base: open(KNOWLEDGE_FILE, "a"), write, newline if missing.
append_to_knowledge_base(content, facts) ==
    content \o facts \o (IF ~EndsWith(facts, <<"\n">>) THEN <<"\n">> ELSE <<>>)

\* The text init_knowledge_base writes.
Preamble ==
    Chars("%% Game Theory Knowledge Base\n")
    \o Chars("%% Extracted from game-theory-101.pdf\n")
    \o Chars("\n")
    \o Chars(":- dynamic concept/3.\n")
    \o Chars(":- dynamic relates/3.\n")
    \o Chars(":- dynamic example/3.\n")
    \o Chars(":- dynamic formula/3.\n")
    \o Chars("\n")
    \o Chars("%% Relation types (declared as facts for validation):\n")
    \o Chars("valid_relation_type(requires).    % A requires B\n")
    \o Chars("valid_relation_type(illustrates). % A exemplifies B\n")
    \o Chars("valid_relation_type(contrasts).   % A opposes B\n")
    \o Chars("valid_relation_type(extends).     % A generalizes B\n")
    \o Chars("valid_relation_type(contains).    % A includes B\n")
    \o Chars("\n")
    \o Chars("%% === Extracted Facts ===\n")
    \o Chars("\n")

\* A variant of init_knowledge_base that writes the preamble unconditionally.
init_knowledge_base_rewrite(exists, content) == [exists |-> TRUE, content |-> Preamble]

\* init_knowledge_base: [exists, content] of the file afterwards.
init_knowledge_base(exists, content) ==
    IF ~exists THEN [exists |-> TRUE, content |-> Preamble]
    ELSE [exists |-> exists, content |-> content]

-----------------------------------------------------------------------------
(* extract.py: process_pdf as a process *)

\* Bounds of the model.
MaxPdfPages == 2
MaxRuns == 2

\* Extracted text lengths a page may have (0: no text at all).
TextLens == {0, MIN_TEXT_LEN - 1, MIN_TEXT_LEN}

\* Payloads the generation service may return.
OneFact == Chars("concept(nash_equilibrium, 3, \"def\").")
TwoFacts == Chars("relates(a, b, requires).\n% x\nexample(a, 1, \"y\").\n")
MissingPeriod == Chars("concept(test, 1, \"missing period\"")
Payloads == {OneFact, TwoFacts, MissingPeriod}

Min(a, b) == IF a < b THEN a ELSE b

RECURSIVE Pow2(_)
Pow2(n) == IF n = 0 THEN 1 ELSE 2 * Pow2(n - 1)

\* current_page = page_num + 1
current_page == page_num + 1

\* reader.pages[page_num]: Python indexing, a negative index counts from the end.
PageIndexOk(n) == -Len(pages) <= n /\ n < Len(pages)
PageAt(n) == IF n < 0 THEN pages[Len(pages) + n + 1] ELSE pages[n + 1]

\* A variant of TooShort that skips a page only when its text is absent.
TooShort_absent(len) == len = 0

\* "if not text or len(text) < 50"
TooShort(len) == len = 0 \/ len < MIN_TEXT_LEN

Event(kind, n) == <<kind, current_page, n>>

\* History (not program state).  About the run in progress: resumed (no
\* explicit start page), loaded (the state.json it read), processed (the
\* current_page values fetched so far), inflight (the page fetched whose
\* outcome is not persisted yet), settled_before (settled, as the run began).
\* About all runs: settled (the pages whose skipped/accepted/rejected outcome
\* was persisted), explicit (some run was given an explicit start page).
\* About the previous run: prev_end (how it ended), prev_failed (the page
\* whose last attempt raised APIError).
Ended(how, failed) ==
    [hist EXCEPT !.prev_end = how, !.prev_failed = failed,
                 !.resumed = FALSE, !.loaded = <<>>, !.processed = <<>>,
                 !.settled_before = {}, !.inflight = <<>>]

\* The locals of process_pdf do not outlive the process.
LocalsGone ==
    /\ log' = <<>>
    /\ start_page' = 0
    /\ end_page' = 0
    /\ page_num' = 0
    /\ attempt' = 0
    /\ prolog_facts' = <<>>

LoopInit ==
    /\ pc = "idle"
    /\ state_file = <<>>
    /\ kb_exists = FALSE
    /\ kb = <<>>
    /\ raw = {}
    /\ start_page = 0
    /\ end_page = 0
    /\ page_num = 0
    /\ attempt = 0
    /\ prolog_facts = <<>>
    /\ runs = 0
    /\ log = <<>>
    /\ hist = [prev_end |-> "none", prev_failed |-> <<>>,
               resumed |-> FALSE, loaded |-> <<>>, processed |-> <<>>,
               settled |-> {}, settled_before |-> {}, inflight |-> <<>>,
               explicit |-> FALSE]

\* Lines 118-134: resolve the start page, the end page, create the knowledge base.
Start(sp, mp) ==
    /\ UNCHANGED valVars
    /\ pc = "idle"
    /\ runs < MaxRuns
    /\ LET s == IF sp = <<>> THEN load_state(state_file) ELSE sp[1]
           e == IF mp /= <<>> /\ mp[1] /= 0
                THEN Min(s + mp[1] - 1, Len(pages)) ELSE Len(pages)
           k == init_knowledge_base(kb_exists, kb)
       IN  /\ start_page' = s
           /\ end_page' = e
           /\ page_num' = s - 1
           /\ kb_exists' = k.exists
           /\ kb' = k.content
    /\ pc' = "loop"
    /\ attempt' = 0
    /\ prolog_facts' = <<>>
    /\ runs' = runs + 1
    /\ log' = <<>>
    /\ hist' = [hist EXCEPT !.resumed = (sp = <<>>),
                            !.loaded = IF sp = <<>> THEN state_file ELSE <<>>,
                            !.processed = <<>>,
                            !.settled_before = hist.settled,
                            !.explicit = @ \/ (sp /= <<>>)]
    /\ UNCHANGED <<state_file, raw, pages>>

\* Line 136 exhausted, line 176.
Finish ==
    /\ UNCHANGED valVars
    /\ pc = "loop"
    /\ page_num >= end_page
    /\ pc' = "idle"
    /\ hist' = Ended("done", <<>>)
    /\ LocalsGone
    /\ UNCHANGED <<state_file, kb_exists, kb, raw, pages, runs>>

\* Line 140 raising IndexError: nothing catches it.
FetchIndexError ==
    /\ UNCHANGED valVars
    /\ pc = "loop"
    /\ page_num < end_page
    /\ ~PageIndexOk(page_num)
    /\ pc' = "idle"
    /\ hist' = Ended("indexerror", <<>>)
    /\ LocalsGone
    /\ UNCHANGED <<state_file, kb_exists, kb, raw, pages, runs>>

\* Lines 140-145: text absent or too short.
Skip ==
    /\ UNCHANGED valVars
    /\ pc = "loop"
    /\ page_num < end_page
    /\ PageIndexOk(page_num)
    /\ TooShort(PageAt(page_num))
    /\ state_file' = save_state(current_page)
    /\ log' = <<Event("fetch", page_num), Event("skip", 0), Event("save", current_page)>>
    /\ page_num' = page_num + 1
    /\ hist' = [hist EXCEPT !.processed = Append(@, current_page),
                            !.settled = @ \cup {current_page},
                            !.inflight = <<>>]
    /\ UNCHANGED <<pc, kb_exists, kb, raw, pages, start_page, end_page, attempt,
                   prolog_facts, runs>>

\* Lines 140-147: text present, enter the retry loop.
Fetch ==
    /\ UNCHANGED valVars
    /\ pc = "loop"
    /\ page_num < end_page
    /\ PageIndexOk(page_num)
    /\ ~TooShort(PageAt(page_num))
    /\ pc' = "call"
    /\ attempt' = 0
    /\ log' = <<Event("fetch", page_num)>>
    /\ hist' = [hist EXCEPT !.processed = Append(@, current_page),
                            !.inflight = <<current_page>>]
    /\ UNCHANGED <<state_file, kb_exists, kb, raw, pages, start_page, end_page,
                   page_num, prolog_facts, runs>>

\* Line 149 returning a payload.
CallOk(payload) ==
    /\ UNCHANGED valVars
    /\ pc = "call"
    /\ prolog_facts' = payload
    /\ pc' = "generated"
    /\ log' = Append(log, Event("call", attempt))
    /\ UNCHANGED <<state_file, kb_exists, kb, raw, pages, start_page, end_page,
                   page_num, attempt, runs, hist>>

\* A variant of CallRateLimit whose retry loop allows one more attempt.
CallRateLimit_one_more ==
    /\ UNCHANGED valVars
    /\ pc = "call"
    /\ log' = log \o <<Event("call", attempt), Event("ratelimit", attempt),
                       Event("wait", Pow2(attempt))>>
    /\ attempt' = attempt + 1
    /\ pc' = IF attempt + 1 <= max_retries THEN "call" ELSE "sleep"
    /\ UNCHANGED <<state_file, kb_exists, kb, raw, pages, start_page, end_page,
                   page_num, prolog_facts, runs, hist>>

\* Line 149 raising RateLimitError, lines 164-167, then the next attempt or
\* the end of the retry loop.
CallRateLimit ==
    /\ UNCHANGED valVars
    /\ pc = "call"
    /\ log' = log \o <<Event("call", attempt), Event("ratelimit", attempt),
                       Event("wait", Pow2(attempt))>>
    /\ attempt' = attempt + 1
    /\ pc' = IF attempt + 1 < max_retries THEN "call" ELSE "sleep"
    /\ UNCHANGED <<state_file, kb_exists, kb, raw, pages, start_page, end_page,
                   page_num, prolog_facts, runs, hist>>

\* Line 149 raising another APIError, lines 168-172.
CallAPIError ==
    /\ UNCHANGED valVars
    /\ pc = "call"
    /\ state_file' = save_state(page_num)
    /\ IF attempt = max_retries - 1
       THEN /\ pc' = "idle"
            /\ hist' = Ended("raised", <<current_page>>)
            /\ LocalsGone
       ELSE /\ pc' = IF attempt + 1 < max_retries THEN "call" ELSE "sleep"
            /\ attempt' = attempt + 1
            /\ log' = log \o <<Event("call", attempt), Event("apierror", attempt),
                               Event("save", page_num)>>
            /\ hist' = hist
            /\ UNCHANGED <<start_page, end_page, page_num, prolog_facts>>
    /\ UNCHANGED <<kb_exists, kb, raw, pages, runs>>

\* Lines 152-155: the payload passes validation.
Accept ==
    /\ UNCHANGED valVars
    /\ pc = "generated"
    /\ validate_prolog_syntax(prolog_facts)
    /\ kb' = append_to_knowledge_base(kb, facts_with_marker(current_page, prolog_facts))
    /\ kb_exists' = TRUE
    /\ pc' = "save"
    /\ log' = Append(log, Event("accept", 0))
    /\ UNCHANGED <<state_file, raw, pages, start_page, end_page, page_num, attempt,
                   prolog_facts, runs, hist>>

\* Lines 158-160: the payload fails validation.
Reject ==
    /\ UNCHANGED valVars
    /\ pc = "generated"
    /\ ~validate_prolog_syntax(prolog_facts)
    /\ raw' = save_raw_response(raw, current_page, prolog_facts)
    /\ pc' = "save"
    /\ log' = Append(log, Event("reject", 0))
    /\ UNCHANGED <<state_file, kb_exists, kb, pages, start_page, end_page, page_num,
                   attempt, prolog_facts, runs, hist>>

\* Lines 156 / 161, then break (line 162).
SaveProgress ==
    /\ UNCHANGED valVars
    /\ pc = "save"
    /\ state_file' = save_state(current_page)
    /\ pc' = "sleep"
    /\ log' = Append(log, Event("save", current_page))
    /\ hist' = [hist EXCEPT !.settled = @ \cup {current_page}, !.inflight = <<>>]
    /\ UNCHANGED <<kb_exists, kb, raw, pages, start_page, end_page, page_num,
                   attempt, prolog_facts, runs>>

\* A variant of InterPageSleep that goes to the next iteration without
\* sleeping.
InterPageSleep_omitted ==
    /\ UNCHANGED valVars
    /\ pc = "sleep"
    /\ page_num' = page_num + 1
    /\ pc' = "loop"
    /\ UNCHANGED <<state_file, kb_exists, kb, raw, pages, start_page, end_page,
                   attempt, prolog_facts, runs, hist, log>>

\* Line 174, then the next iteration of the for loop.
InterPageSleep ==
    /\ UNCHANGED valVars
    /\ pc = "sleep"
    /\ log' = Append(log, Event("sleep", 0))
    /\ page_num' = page_num + 1
    /\ pc' = "loop"
    /\ UNCHANGED <<state_file, kb_exists, kb, raw, pages, start_page, end_page,
                   attempt, prolog_facts, runs, hist>>

\* The process is killed (crash, interrupt) between two steps.
Crash ==
    /\ UNCHANGED valVars
    /\ pc /= "idle"
    /\ pc' = "idle"
    /\ hist' = Ended("crashed", <<>>)
    /\ LocalsGone
    /\ UNCHANGED <<state_file, kb_exists, kb, raw, pages, runs>>

\* start_page: None, or the integer given on the command line (main() takes
\* any int(sys.argv[2])): a page of the document, or 0.
StartArgs == {<<>>} \cup {<<n>> : n \in 0..Len(pages)}
\* max_pages: None, or a limit of one page.
MaxPagesArgs == {<<>>, <<1>>}

\* The first invocation of process_pdf on a fresh installation, with any
\* arguments.
StartOnce(sp, mp) == runs = 0 /\ Start(sp, mp)

\* A later invocation without arguments: the restart after a run that
\* completed, raised or was killed.
Restart == runs >= 1 /\ Start(<<>>, <<>>)

Next ==
    \/ \E sp \in StartArgs, mp \in MaxPagesArgs : StartOnce(sp, mp)
    \/ Restart
    \/ Finish
    \/ FetchIndexError
    \/ Skip
    \/ Fetch
    \/ \E payload \in Payloads : CallOk(payload)
    \/ CallRateLimit
    \/ CallAPIError
    \/ Accept
    \/ Reject
    \/ SaveProgress
    \/ InterPageSleep
    \/ Crash

Init ==
    /\ LoopInit
    /\ pages \in UNION {[1..n -> TextLens] : n \in 1..MaxPdfPages}
    /\ vin = <<>> /\ vop = "none" /\ vout = FALSE

Spec == Init /\ [][Next]_vars

\* start_page of a single invocation: as above, or -1 (before the first page
\* of a one-page document, the last but one page of a longer one).
RunArgs == StartArgs \cup {<<-1>>}

\* A single invocation of process_pdf on a fresh installation.
NextRun ==
    \/ \E sp \in RunArgs, mp \in MaxPagesArgs : StartOnce(sp, mp)
    \/ Finish
    \/ FetchIndexError
    \/ Skip
    \/ Fetch
    \/ \E payload \in Payloads : CallOk(payload)
    \/ CallRateLimit
    \/ CallAPIError
    \/ Accept
    \/ Reject
    \/ SaveProgress
    \/ InterPageSleep
    \/ Crash

SpecRun == Init /\ [][NextRun]_vars

-----------------------------------------------------------------------------
(* validate.py applied to bounded inputs *)

MaxParenLen == 5
MaxTokens == 4

RECURSIVE SeqsUpTo(_, _)
SeqsUpTo(S, n) ==
    IF n = 0 THEN {<<>>}
    ELSE LET shorter == SeqsUpTo(S, n - 1)
         IN  shorter \cup {Append(q, x) : q \in {r \in shorter : Len(r) = n - 1}, x \in S}

\* Every text of parentheses, quotes, backslashes and a letter.
ParenAlphabet == {"(", ")", "\"", "\\", "a"}
ParenTexts == SeqsUpTo(ParenAlphabet, MaxParenLen)

\* Payloads assembled from fact-sized pieces.
Tokens == {Chars("concept(a, 1, \"b(c)\")."), Chars("Concept(a)."),
           Chars("formula(x"), Chars("% c"), <<"\n">>, <<" ">>, <<")">>, <<".">>,
           <<"\"">>}
TokenTexts == {Concat(q) : q \in SeqsUpTo(Tokens, MaxTokens)}

\* The cases of validate.py's own test list, and of the specification.
SampleTexts ==
    {Chars("concept(nash_equilibrium, 42, \"A strategy profile\")."),
     Chars("relates(nash_equilibrium, best_response, requires)."),
     Chars("example(prisoners_dilemma, 15, \"Two suspects\")."),
     Chars("formula(mixed_strategy, 87, \"p*U(A) + (1-p)*U(B)\")."),
     Chars("% No concepts on this page"),
     Chars("concept(test, 1, \"Quote \"\"test\"\" here\")."),
     Chars("invalid_predicate(foo, bar)."),
     Chars("concept(test, 1, \"unclosed string"),
     Chars("concept(test, 1, \"missing period\""),
     Chars("concept(a, 1, \"b(c)\")."),
     Chars("concept(a, 1))."),
     Chars("concept(a, 1\\))."),
     Chars("concept(a, 1, \"x\ry\")."),
     Chars("% c\r\nconcept(a, 1, \"x\").\r\n"),
     Chars("\n  \n% only\n\t% comments\n\n")}

\* Payloads of the form concept(X, N, "S"). : X an identifier, N an integer,
\* S a text whose quotes are doubled.
MaxStrLen == 3
StrAlphabet == {"a", " ", "(", ")", "\"", "\\"}
StrTexts == SeqsUpTo(StrAlphabet, MaxStrLen)

RECURSIVE DoubleQuotes(_)
DoubleQuotes(t) ==
    IF t = <<>> THEN <<>>
    ELSE (IF Head(t) = "\"" THEN <<"\"", "\"">> ELSE <<Head(t)>>) \o DoubleQuotes(Tail(t))

QuotedLiteral(t) == <<"\"">> \o DoubleQuotes(t) \o <<"\"">>

ConceptLiteral(x, n, t) ==
    Chars("concept(") \o x \o Chars(", ") \o IntToStr(n) \o Chars(", ")
        \o QuotedLiteral(t) \o Chars(").")

ConceptNames == {Chars("a"), Chars("nash_equilibrium")}
ConceptPages == {1, -42}
ConceptTexts ==
    {ConceptLiteral(x, n, t) : x \in ConceptNames, n \in ConceptPages, t \in StrTexts}

\* String literals: a text with its quotes doubled, or with a backslash
\* before each character, between quotes; alone or followed by the end of a
\* fact.
RECURSIVE EscapeAll(_)
EscapeAll(t) ==
    IF t = <<>> THEN <<>> ELSE <<"\\", Head(t)>> \o EscapeAll(Tail(t))

EscapedLiteral(t) == <<"\"">> \o EscapeAll(t) \o <<"\"">>

StringLiterals ==
    {lit \o tail : lit \in {QuotedLiteral(t) : t \in StrTexts}
                            \cup {EscapedLiteral(t) : t \in StrTexts},
                   tail \in {<<>>, Chars(").")}}

\* Files of up to MaxFileLines lines, each ended by a newline: facts, a
\* fact with a trailing comment, rejected lines, comments, directives and
\* blank lines; and the header init_knowledge_base writes.
MaxFileLines == 3
FileLineChoices ==
    {Chars("concept(a, 1, \"b(c)\")."),
     Chars("valid_relation_type(requires).    % A requires B"),
     Chars("Concept(a)."),
     Chars("formula(x"),
     Chars(":- dynamic concept/3."),
     Chars("  % note"),
     Chars(" ")}

RECURSIVE JoinLines(_)
JoinLines(ls) ==
    IF ls = <<>> THEN <<>> ELSE Head(ls) \o <<"\n">> \o JoinLines(Tail(ls))

FileTexts ==
    {JoinLines(ls) : ls \in SeqsUpTo(FileLineChoices, MaxFileLines)} \cup {Preamble}

VInputs ==
    ParenTexts \cup TokenTexts \cup SampleTexts \cup Payloads \cup ConceptTexts
        \cup StringLiterals \cup FileTexts

ApplyValidate ==
    /\ vop = "none"
    /\ vop' = "validate_prolog_syntax"
    /\ vout' = validate_prolog_syntax(vin)
    /\ UNCHANGED <<vin, loopVars>>

ApplyBalanced ==
    /\ vop = "none"
    /\ vop' = "check_balanced_parens"
    /\ vout' = check_balanced_parens(vin)
    /\ UNCHANGED <<vin, loopVars>>

ApplyFact ==
    /\ vop = "none"
    /\ vop' = "validate_fact"
    /\ vout' = validate_fact(vin)
    /\ UNCHANGED <<vin, loopVars>>

ApplyParse ==
    /\ vop = "none"
    /\ vop' = "parse_prolog_string"
    /\ vout' = parse_prolog_string(vin)
    /\ UNCHANGED <<vin, loopVars>>

ApplyFile ==
    /\ vop = "none"
    /\ vop' = "validate_file"
    /\ vout' = validate_file(vin)
    /\ UNCHANGED <<vin, loopVars>>

InitV ==
    /\ LoopInit
    /\ pages = <<MIN_TEXT_LEN>>
    /\ vin \in VInputs
    /\ vop = "none"
    /\ vout = FALSE

NextV ==
    \/ ApplyValidate
    \/ ApplyBalanced
    \/ ApplyFact
    \/ ApplyParse
    \/ ApplyFile

SpecV == InitV /\ [][NextV]_vars

-----------------------------------------------------------------------------
(* Properties of the validator (checked under SpecV) *)

\* The lines of a payload, and the fact lines among them.
IsBlank(line) == \A k \in DOMAIN line : line[k] \in Whitespace
IsComment(line) == ~IsBlank(line) /\ Head(LStrip(line)) = "%"
IsFactLine(line) == ~IsBlank(line) /\ ~IsComment(line)

\* The four per-line checks, on the trimmed line: balanced parentheses, fact
\* shape, known predicate, final period.
PassesFourChecks(line) ==
    LET t == Strip(line) IN
    /\ check_balanced_parens(t)
    /\ FactMatch(t) /= <<>>
    /\ FactMatch(t) \in VALID_PREDICATES
    /\ t[Len(t)] = "."

AllFactLinesPass(text) ==
    LET lines == SplitLines(text) IN
    \A k \in DOMAIN lines : IsFactLine(lines[k]) => PassesFourChecks(lines[k])

\* C4: validate_prolog_syntax returns true exactly when every non-blank,
\* non-comment line of the payload passes the four per-line checks (so a
\* payload of blank and comment lines only is valid, and one failing line
\* makes the payload invalid).
C4_ValidIffEveryFactLinePasses ==
    vop = "validate_prolog_syntax" => (vout = AllFactLinesPass(vin))

\* C4 witness: a payload of several lines, a fact and a comment among them,
\* was validated and accepted.
C4_Witness ==
    /\ vop = "validate_prolog_syntax"
    /\ vout = TRUE
    /\ LET lines == SplitLines(vin) IN
       /\ \E k \in DOMAIN lines : IsFactLine(lines[k])
       /\ \E k \in DOMAIN lines : IsComment(lines[k])

\* The reading of the balance rule in which only quoted-string spans hide
\* parentheses: a quote opens or closes a span, a backslash inside a span
\* escapes the next character, and outside a span every parenthesis counts.
OutsideStep(st, char) ==
    IF st.failed THEN st
    ELSE IF st.in_string
         THEN IF st.escaped THEN [st EXCEPT !.escaped = FALSE]
              ELSE IF char = "\\" THEN [st EXCEPT !.escaped = TRUE]
              ELSE IF char = "\"" THEN [st EXCEPT !.in_string = FALSE]
              ELSE st
    ELSE IF char = "\"" THEN [st EXCEPT !.in_string = TRUE]
    ELSE IF char = "(" THEN [st EXCEPT !.opens = st.opens + 1]
    ELSE IF char = ")"
         THEN [st EXCEPT !.closes = st.closes + 1,
                         !.failed = st.closes + 1 > st.opens]
    ELSE st

RECURSIVE OutsideScan(_, _, _, _)
OutsideScan(text, lo, hi, st) ==
    IF lo > hi THEN st
    ELSE IF lo = hi THEN OutsideStep(st, text[lo])
    ELSE LET mid == (lo + hi) \div 2
             half == OutsideScan(text, lo, mid, st)
         IN  IF half.failed THEN half ELSE OutsideScan(text, mid + 1, hi, half)

BalancedOutsideStrings(text) ==
    LET st == OutsideScan(text, 1, Len(text),
                          [opens |-> 0, closes |-> 0, in_string |-> FALSE,
                           escaped |-> FALSE, failed |-> FALSE])
    IN  ~st.failed /\ st.opens = st.closes

\* C10: check_balanced_parens rejects a line exactly when, ignoring the
\* parentheses inside quoted strings, the closing ones ever outnumber the
\* opening ones or the two counts differ at the end of the line.
C10_CountsOnlyOutsideStrings ==
    vop = "check_balanced_parens" =>
        (vout = BalancedOutsideStrings(vin))

\* The quoted-string spans of a line, read left to right: a quote opens a
\* span, the next quote that no backslash escapes closes it (a doubled quote
\* closes and reopens); open_at is the position of the quote that opened the
\* span in progress, 0 outside a span.
QuoteStep(st, char, k) ==
    IF st.open_at = 0
    THEN IF char = "\"" THEN [st EXCEPT !.open_at = k] ELSE st
    ELSE IF st.escaped THEN [st EXCEPT !.escaped = FALSE]
    ELSE IF char = "\\" THEN [st EXCEPT !.escaped = TRUE]
    ELSE IF char = "\"" THEN [st EXCEPT !.open_at = 0]
    ELSE st

RECURSIVE QuoteScan(_, _, _, _)
QuoteScan(text, lo, hi, st) ==
    IF lo > hi THEN st
    ELSE IF lo = hi THEN QuoteStep(st, text[lo], lo)
    ELSE LET mid == (lo + hi) \div 2
             half == QuoteScan(text, lo, mid, st)
         IN  IF half.open_at < 0 THEN half ELSE QuoteScan(text, mid + 1, hi, half)

\* Position of the opening quote of the line's unterminated string, 0 when
\* every string of the line is closed.
OpenQuote(line) ==
    QuoteScan(line, 1, Len(line), [open_at |-> 0, escaped |-> FALSE]).open_at

\* C11: a payload with a (non-blank, non-comment) line that holds an
\* unterminated quoted string is refused by validate_prolog_syntax, and
\* parse_prolog_string fails with the unterminated-string error on the text
\* from that opening quote.
C11_UnterminatedStringRejected ==
    vop = "validate_prolog_syntax" =>
        LET lines == SplitLines(vin) IN
        \A k \in DOMAIN lines :
            (IsFactLine(lines[k]) /\ OpenQuote(lines[k]) /= 0) =>
                /\ vout = FALSE
                /\ parse_prolog_string(
                       SubSeq(lines[k], OpenQuote(lines[k]), Len(lines[k])))
                     = [ok |-> FALSE, error |-> "Unterminated string"]

\* The second half of C11 alone: the sub-parser fails on the text from the
\* opening quote of an unterminated string.
C11_SubParserFails ==
    vop = "validate_prolog_syntax" =>
        LET lines == SplitLines(vin) IN
        \A k \in DOMAIN lines :
            OpenQuote(lines[k]) /= 0 =>
                parse_prolog_string(
                    SubSeq(lines[k], OpenQuote(lines[k]), Len(lines[k])))
                  = [ok |-> FALSE, error |-> "Unterminated string"]

-----------------------------------------------------------------------------
(* Properties of the extraction loop (checked under Spec) *)

HasEvent(kind) == \E k \in DOMAIN log : log[k][1] = kind
LastEvent(kind) == log /= <<>> /\ log[Len(log)][1] = kind
Count(kind) == Cardinality({k \in DOMAIN log : log[k][1] = kind})
Waits == LET ks == {k \in DOMAIN log : log[k][1] = "wait"}
             W[n \in 0..Len(log)] ==
                 IF n = 0 THEN <<>>
                 ELSE IF n \in ks THEN Append(W[n - 1], log[n][3]) ELSE W[n - 1]
         IN  W[Len(log)]

\* C1: a run started without an explicit start page, with progress P
\* persisted, processes page P + 1 first.
C1_ResumesAtFollowingPage ==
    (pc /= "idle" /\ hist.resumed /\ hist.loaded /= <<>> /\ hist.processed /= <<>>)
        => hist.processed[1] = hist.loaded[1] + 1

\* The step in which the last allowed attempt for the page raises APIError.
FinalAPIErrorStep ==
    pc = "call" /\ attempt = max_retries - 1 /\ pc' = "idle" /\ hist'.prev_end = "raised"

\* C2: an APIError on the last allowed attempt for page p leaves the
\* persisted progress at p - 1 and ends the run (so nothing after p is
\* fetched, generated or written in it); a later run without an explicit
\* start page starts no later than p and does not pass p over.
C2_AbortRollsBackAndStops ==
    /\ [][FinalAPIErrorStep =>
            /\ state_file' = <<current_page - 1>>
            /\ hist'.prev_failed = <<current_page>>
            /\ kb' = kb /\ raw' = raw]_vars
    /\ [](\A k \in DOMAIN log :
            ~(log[k][1] = "apierror" /\ log[k][3] >= max_retries - 1))
    /\ []((pc /= "idle" /\ hist.resumed /\ hist.prev_failed /= <<>>) =>
            LET p == hist.prev_failed[1]
                done == hist.processed IN
            /\ start_page = p - 1
            /\ \A i \in DOMAIN done :
                   done[i] > p => \E j \in 1..(i - 1) : done[j] = p)

\* C2 witness: after page p's last attempt raised, a run without an explicit
\* start page has fetched page p again.
C2_Witness ==
    /\ pc = "call"
    /\ hist.resumed
    /\ hist.prev_failed = <<current_page>>
    /\ state_file = <<current_page>> \/ state_file = <<current_page - 1>>

\* C3: after three RateLimited failures in a row the loop makes a fourth call
\* for the same page, having waited 1, 2 and 4.
C3_FourthCallAfterThreeRateLimits ==
    (pc /= "idle" /\ Count("ratelimit") = 3) =>
        /\ Waits = <<1, 2, 4>>
        /\ \/ pc = "call" /\ attempt = 3
           \/ \E k \in DOMAIN log : log[k][1] = "call" /\ log[k][3] = 3

\* The step in which a payload that passes validation is written.
AcceptStep == pc = "generated" /\ pc' = "save" /\ validate_prolog_syntax(prolog_facts)

\* The step in which a payload that fails validation is written.
RejectStep == pc = "generated" /\ pc' = "save" /\ ~validate_prolog_syntax(prolog_facts)

\* The step persisting the progress after either outcome.
SaveStep == pc = "save" /\ pc' = "sleep"

MarkerLine(n) == Chars("% === Page ") \o IntToStr(n) \o Chars(" ===\n")

\* The payload's fact lines, one per line.
FactLinesOf(text) ==
    LET lines == SplitLines(text)
        F[n \in 0..Len(lines)] ==
            IF n = 0 THEN <<>>
            ELSE IF IsFactLine(lines[n]) THEN F[n - 1] \o lines[n] \o <<"\n">>
            ELSE F[n - 1]
    IN  F[Len(lines)]

C6_RejectedPayload ==
    /\ [][RejectStep =>
            /\ kb' = kb
            /\ <<RawPath(current_page), prolog_facts>> \in raw'
            /\ \A f \in raw' : f[1] = RawPath(current_page) => f[2] = prolog_facts
            /\ \A f \in raw : f[1] /= RawPath(current_page) => f \in raw'
            /\ \A f \in raw' : f[1] /= RawPath(current_page) => f \in raw]_vars
    /\ [][(SaveStep /\ LastEvent("reject")) =>
            state_file' = <<current_page>> /\ kb' = kb /\ raw' = raw]_vars
    /\ [](\A i, j \in DOMAIN log :
            (i < j /\ log[i][1] = "reject") => log[j][1] /= "call")
    /\ [](\A i, j \in DOMAIN hist.processed :
            i < j => hist.processed[i] < hist.processed[j])

\* C6 witness: a rejected payload's progress was persisted and the loop has
\* moved on to the following page.
C6_Witness ==
    /\ pc = "loop"
    /\ page_num < end_page
    /\ HasEvent("reject")
    /\ state_file = <<page_num>>
    /\ <<RawPath(page_num), MissingPeriod>> \in raw

\* C7: a page whose text is absent or shorter than 50 characters causes no
\* service call and no write to the knowledge base or the raw artifacts; the
\* progress becomes that page and the loop goes on with the next page.
C7_ShortPageSkipped ==
    [][(/\ pc = "loop" /\ page_num < end_page /\ PageIndexOk(page_num)
        /\ PageAt(page_num) < 50
        /\ pc' /= "idle") =>
            /\ kb' = kb /\ raw' = raw
            /\ state_file' = <<page_num + 1>>
            /\ pc' = "loop" /\ page_num' = page_num + 1
            /\ \A k \in DOMAIN log' : log'[k][1] /= "call"]_vars

\* C7 witness: a page of 49 characters was skipped and another page follows.
C7_Witness ==
    /\ pc = "loop"
    /\ LastEvent("save") /\ HasEvent("skip")
    /\ 1 <= page_num /\ page_num < end_page
    /\ pages[page_num] = 49
    /\ state_file = <<page_num>>

\* Number of places where text p occurs in text s.
Occurrences(p, s) ==
    Cardinality({k \in 1..(Len(s) - Len(p) + 1) :
                    s[k] = p[1] /\ SubSeq(s, k, k + Len(p) - 1) = p})

\* C8: the knowledge base is append-only (its content before a step is a
\* prefix of its content after it) and the preamble is written only when the
\* file is absent: it is there exactly once, at the start.
C8_AppendOnly ==
    /\ [][IsPrefix(kb, kb') /\ (kb_exists => kb_exists')]_vars
    /\ [](kb_exists => IsPrefix(Preamble, kb) /\ Occurrences(Preamble, kb) = 1)
    /\ [](~kb_exists => kb = <<>>)

\* C8 witness: a second run has appended to the knowledge base the first one
\* had appended to.
C8_Witness ==
    /\ runs = 2
    /\ LastEvent("accept")
    /\ Occurrences(Chars("% === Page "), kb) = 2

\* C9: after a crash, a run without an explicit start page processes no page
\* whose outcome had already been persisted.
C9_NoSettledPageAgain ==
    (pc /= "idle" /\ hist.resumed /\ hist.prev_end = "crashed") =>
        \A k \in DOMAIN hist.processed : hist.processed[k] \notin hist.settled_before

-----------------------------------------------------------------------------
(* Further properties of the validator (checked under SpecV) *)

PlainConceptTexts ==
    {ConceptLiteral(x, n, t) :
        x \in ConceptNames, n \in ConceptPages,
        t \in {u \in StrTexts : \A k \in DOMAIN u : u[k] /= "\\"}}

KnownPredicates ==
    {Chars("concept"), Chars("relates"), Chars("example"), Chars("formula")}

\* The identifier a line begins with (empty when it begins with none).
LeadingIdentifier(line) ==
    LET t == Strip(line) IN SubSeq(t, 1, IdentRun(t, 1))

\* C13: a payload with a (non-blank, non-comment) line whose leading
\* identifier is not exactly one of the four predicate names is refused by
\* validate_prolog_syntax; when such a line has balanced parentheses and fact
\* shape, validate_fact's diagnostic is "Unknown predicate: " followed by the
\* identifier.
C13_UnknownPredicateRejected ==
    /\ vop = "validate_prolog_syntax" =>
          LET lines == SplitLines(vin) IN
          (\E k \in DOMAIN lines :
              IsFactLine(lines[k]) /\ LeadingIdentifier(lines[k]) \notin KnownPredicates)
            => vout = FALSE
    /\ (/\ vop = "validate_fact"
        /\ IsFactLine(vin)
        /\ LeadingIdentifier(vin) \notin KnownPredicates
        /\ check_balanced_parens(Strip(vin))
        /\ FactMatch(Strip(vin)) /= <<>>)
          => vout = [ok |-> FALSE,
                     error |-> <<"Unknown predicate: ", LeadingIdentifier(vin)>>]

\* C13 witness: validate_fact refused "Concept(a)." naming Concept.
C13_Witness ==
    /\ vop = "validate_fact"
    /\ vin = Chars("Concept(a).")
    /\ vout = [ok |-> FALSE, error |-> <<"Unknown predicate: ", Chars("Concept")>>]

\* C14: a payload with a (non-blank, non-comment) line that, trailing
\* whitespace trimmed, does not end with a period is refused by
\* validate_prolog_syntax.
C14_MissingPeriodRejected ==
    vop = "validate_prolog_syntax" =>
        LET lines == SplitLines(vin) IN
        (\E k \in DOMAIN lines :
            /\ IsFactLine(lines[k])
            /\ LET t == RStrip(lines[k]) IN t[Len(t)] /= ".")
          => vout = FALSE

\* C14 witness: a line with balanced parentheses and closed strings that
\* ends with a quote instead of a period was refused.
C14_Witness ==
    /\ vop = "validate_prolog_syntax"
    /\ vout = FALSE
    /\ vin = Chars("concept(a, 1, \"b(c)\").\"\"")

-----------------------------------------------------------------------------
(* Further properties of the extraction loop (checked under SpecRun) *)

\* C15 as stated: when the loop is about to go on after a page that was
\* skipped, accepted or rejected, it has slept since the outcome.
C15_SleepAfterEveryOutcome ==
    (pc = "loop" /\ (HasEvent("skip") \/ HasEvent("accept") \/ HasEvent("reject")))
        => LastEvent("sleep")

\* C15 amended: when the loop is about to go on after a page that was
\* accepted or rejected it has slept since the outcome, whatever the retries
\* before it; after a skipped page it goes on without sleeping.
C15_SleepAfterGeneratedPages ==
    /\ (pc = "loop" /\ (HasEvent("accept") \/ HasEvent("reject"))) => LastEvent("sleep")
    /\ (pc = "loop" /\ HasEvent("skip")) => ~HasEvent("sleep")

\* C15 witness: a page accepted on its second attempt was followed by the
\* sleep, and another page is to come.
C15_Witness ==
    /\ pc = "loop"
    /\ page_num < end_page
    /\ HasEvent("ratelimit") /\ HasEvent("accept")
    /\ LastEvent("sleep")

-----------------------------------------------------------------------------
(* Properties of the string sub-parser (checked under SpecV) *)

StartsWithQuote(text) == text /= <<>> /\ text[1] = "\""

\* C16: parse_prolog_string fails with "String must start with quote" on a
\* text that does not begin with a quote and with the different error
\* "Unterminated string" when the string is not closed; otherwise it returns
\* the position of the closing quote (just past it, counting from 0).  A text
\* without backslash, its quotes doubled and wrapped in quotes, decodes to
\* itself with the literal's length, whatever follows the literal; so does a
\* text with a backslash before each of its characters.
C16_SubParserDecodes ==
    vop = "parse_prolog_string" =>
        /\ ~StartsWithQuote(vin)
              => vout = [ok |-> FALSE, error |-> "String must start with quote"]
        /\ (StartsWithQuote(vin) /\ ~vout.ok)
              => vout = [ok |-> FALSE, error |-> "Unterminated string"]
        /\ (StartsWithQuote(vin) /\ vout.ok)
              => /\ 2 <= vout.pos /\ vout.pos <= Len(vin)
                 /\ vin[vout.pos] = "\""
                 /\ Len(vout.content) <= vout.pos - 2
        /\ \A t \in StrTexts, tail \in {<<>>, Chars(").")} :
              /\ ((\A k \in DOMAIN t : t[k] /= "\\") /\ vin = QuotedLiteral(t) \o tail)
                    => vout = [ok |-> TRUE, content |-> t, pos |-> Len(QuotedLiteral(t))]
              /\ vin = EscapedLiteral(t) \o tail
                    => vout = [ok |-> TRUE, content |-> t, pos |-> Len(EscapedLiteral(t))]

\* C16 witness: the literal of a text with a quote and a parenthesis,
\* followed by the end of a fact, was decoded.
C16_Witness ==
    /\ vop = "parse_prolog_string"
    /\ vin = QuotedLiteral(<<"\"", "(", " ">>) \o Chars(").")
    /\ vout = [ok |-> TRUE, content |-> <<"\"", "(", " ">>, pos |-> 6]

-----------------------------------------------------------------------------
(* Properties of the file validator (checked under SpecV) *)

\* The line is skipped: blank, a comment, or a directive.
SkippedLine(line) ==
    \/ Strip(line) = <<>>
    \/ StartsWith(Strip(line), <<"%">>)
    \/ StartsWith(Strip(line), <<":", "-">>)

\* The numbers of the lines of text that are not skipped and that
\* validate_fact rejects.
RejectedLines(text) ==
    LET lines == FileLines(text)
    IN  {k \in DOMAIN lines : ~SkippedLine(lines[k]) /\ ~validate_fact(Strip(lines[k])).ok}

\* The j-th smallest element of a set of numbers.
NthOf(S, j) == CHOOSE k \in S : Cardinality({m \in S : m <= k}) = j

\* C17: validate_file returns exactly one diagnostic, in file order and
\* tagged "Line n: " with its 1-based line number, for every line that is not
\* blank, a comment or a directive and that validate_fact rejects; it goes on
\* after a failing line, and its boolean is TRUE exactly when the list is
\* empty.
C17_FileDiagnostics ==
    (vop = "validate_file") =>
        LET rejected == RejectedLines(vin)
        IN  /\ Len(vout.errors) = Cardinality(rejected)
            /\ \A j \in DOMAIN vout.errors :
                   LET k == NthOf(rejected, j)
                   IN  vout.errors[j] =
                           Chars("Line ") \o IntToStr(k) \o Chars(": ")
                               \o ErrorText(validate_fact(Strip(FileLines(vin)[k])).error)
            /\ vout.ok = (vout.errors = <<>>)

\* A file whose first and third lines are rejected and whose second line is a
\* directive: two diagnostics, for lines 1 and 3.
C17_Witness ==
    /\ vop = "validate_file"
    /\ vin = Chars("Concept(a).\n:- dynamic concept/3.\nformula(x\n")
    /\ vout.ok = FALSE
    /\ Len(vout.errors) = 2
    /\ IsPrefix(Chars("Line 1: "), vout.errors[1])
    /\ IsPrefix(Chars("Line 3: "), vout.errors[2])

-----------------------------------------------------------------------------
(* Retries and termination of a run (checked under SpecRun) *)

\* The service calls made so far for the page in progress.
CallsMade == Count("call")

\* The statements a run at this control point has yet to execute before it
\* starts the next iteration of the for loop.
StageRank ==
    CASE pc = "loop"      -> 2 * max_retries + 2
      [] pc = "call"      -> 2 * max_retries + 1 - attempt
      [] pc = "generated" -> 3
      [] pc = "save"      -> 2
      [] pc = "sleep"     -> 1
      [] OTHER            -> 0

\* A bound on the steps a started run can still take: the iterations left,
\* each worth the longest path through the loop body, plus the rest of the
\* current iteration.
RunVariant ==
    IF pc = "idle" THEN 0
    ELSE (IF end_page > page_num THEN end_page - page_num ELSE 0)
             * (2 * max_retries + 3) + StageRank

\* C18: in a run, a service call for a page is made only when fewer than
\* max_retries calls were made for that page, whatever errors the earlier
\* calls raised, so no page gets more than max_retries calls; and every step
\* of a started run (a call returning or raising, a sleep ending, ...)
\* strictly lowers a natural-number bound, so the run ends, normally or by
\* an exception, after finitely many steps.
C18_BoundedCallsAndTermination ==
    /\ [](/\ CallsMade <= max_retries
          /\ (pc = "call") => (CallsMade = attempt /\ CallsMade < max_retries)
          /\ RunVariant \in Nat
          /\ (pc /= "idle") => (RunVariant > 0))
    /\ [][(pc /= "idle") => (RunVariant' < RunVariant)]_vars

\* A page whose three calls failed with a mix of RateLimitError and APIError.
C18_Witness ==
    /\ pc = "sleep"
    /\ CallsMade = max_retries
    /\ Count("apierror") >= 1
    /\ Count("ratelimit") >= 1

-----------------------------------------------------------------------------
(* Pages passed over (checked under SpecRun) *)

\* C19: a run goes on to the next page only after the page in progress was
\* skipped, accepted or rejected and its number persisted: at the sleep that
\* ends an iteration no page is left without an outcome, and every page
\* fetched before the latest one is settled.  A page whose attempts all
\* failed ends the run instead.
C19_NoPagePassedOver ==
    /\ (pc = "sleep") => (hist.inflight = <<>>)
    /\ \A k \in DOMAIN hist.processed :
           k < Len(hist.processed) => hist.processed[k] \in hist.settled

-----------------------------------------------------------------------------
(* Page numbers over a sequence of resumed runs (checked under Spec) *)

\* C20: as long as every run was started without an explicit start page,
\* every page fetched has a number within 1..page_count, the persisted
\* current_page is within 0..page_count, and after a run aborted by a
\* service error it is not lower than the page before the one that failed.
C20_PageNumbersInRange ==
    ~hist.explicit =>
        /\ \A k \in DOMAIN hist.processed : hist.processed[k] \in 1..Len(pages)
        /\ state_file /= <<>> => state_file[1] \in 0..Len(pages)
        /\ (pc = "idle" /\ hist.prev_end = "raised") =>
               state_file[1] >= hist.prev_failed[1] - 1

-----------------------------------------------------------------------------
(* The knowledge base under the file validator (checked under SpecRun) *)

\* C21: validate_file accepts the knowledge base the loop has written (the
\* header of init_knowledge_base, then a page marker and the payload for
\* each accepted page): it returns valid with no diagnostic.
C21_KnowledgeBaseValidates ==
    kb_exists => validate_file(kb) = [ok |-> TRUE, errors |-> <<>>]

\* What the loop appended after the header: the page markers and the
\* accepted payloads.
AppendedFacts == SubSeq(kb, Len(Preamble) + 1, Len(kb))

\* The lines appended after the header are skipped or accepted by
\* validate_file.
AppendedFactsValidate ==
    kb_exists => validate_file(AppendedFacts) = [ok |-> TRUE, errors |-> <<>>]

====
